---- MODULE Spec2Model ----
(***************************************************************************)
(* UALBP-1 by reduction to SAT: the encoders, the lazy (CEGAR) refinement  *)
(* loop, the pseudo-boolean variant, the station-count search, and the     *)
(* worker process with a hard deadline, as written in src/ualbp.py,        *)
(* src/ualbp_naive.py and src/ualbp_pb.py.                                 *)
(*                                                                         *)
(* Indices are the source's: tasks 0..num_tasks-1, stations                *)
(* 0..num_stations-1.  A Python list indexed from 0 is a function on       *)
(* 0..n-1 where the code indexes it, and a sequence where the code only    *)
(* appends to it and iterates over it.  A literal is a nonzero integer, a  *)
(* clause a sequence of literals, a model the sequence of signed variable  *)
(* ids the oracle returns (model[v] here is model[v - 1] in Python).       *)
(***************************************************************************)
EXTENDS Integers, Sequences, FiniteSets, TLC

VARIABLES
    \* the program run, the position of process_instances' reader, and the
    \* instance of the batch row
    program, row_index, num_tasks, tasks, precedences, cycle_time, lb,
    \* solve_ualbp and solve_ualbp_iterative (in the worker process, or
    \* inline in src/ualbp.py): position and locals
    pc, current_num_stations, base_clauses, extra_clauses, iteration,
    model, solution,
    \* history: the station counts solve_ualbp_iterative was called with
    tried,
    \* process_instances and solve_instance_with_timeout: position, the
    \* queue, the returned triple, the summary rows, the result report
    ppc, queue, ret, results, report,
    \* history: the worker was alive when join(timeout) ran out
    deadline_alive

instance ==
    <<program, row_index, num_tasks, tasks, precedences, cycle_time, lb>>

solver == <<pc, current_num_stations, base_clauses, extra_clauses,
            iteration, model, solution, tried>>

parent == <<ppc, queue, ret, results, report, deadline_alive>>

vars == <<instance, solver, parent>>

\* ---------------------------------------------------------------- bounds
MaxTasks == 2
MaxCycle == 2
MaxStations == 2
MaxEdges == 1
\* durations reach past the smaller cycle times, lower bounds reach the cap
MaxDuration == MaxCycle
MaxLb == MaxStations
\* rows of the CSV file, and the size of the instances of a batch
MaxRows == 2
BatchTasks == 1

\* Python's None
None == <<>>

\* ------------------------------------------------------- generic helpers
Abs(x) == IF x < 0 THEN -x ELSE x

Max(S) == CHOOSE x \in S : \A y \in S : y <= x

Range(s) == {s[j] : j \in DOMAIN s}

\* the concatenation of the sequences ss[1], ss[2], ...
RECURSIVE Flatten(_)
Flatten(ss) == IF ss = <<>> THEN <<>> ELSE Head(ss) \o Flatten(Tail(ss))

\* for x in range(lo, hi + 1): result += Body(x)
ForRange(lo, hi, Body(_)) ==
    IF lo > hi THEN <<>>
    ELSE Flatten([j \in 1..(hi - lo + 1) |-> Body(lo + j - 1)])

\* for e in s: result += Body(e)
ForEach(s, Body(_)) == Flatten([j \in 1..Len(s) |-> Body(s[j])])

RECURSIVE SumSeq(_)
SumSeq(s) == IF s = <<>> THEN 0 ELSE Head(s) + SumSeq(Tail(s))

\* ------------------------------------------------------------- encoding
\* variables[i][k] = <<forward id, backward id>>  ([0] and [1] in Python)
generate_ualbp_variables(T, K) ==
    [i \in 0..(T - 1) |->
        [k \in 0..(K - 1) |->
            <<i * K * 2 + k + 1, i * K * 2 + K + k + 1>>]]

\* Assignment constraints of task i
assignment_clauses(i, K, variables) ==
    <<ForRange(0, K - 1, LAMBDA k : <<variables[i][k][1]>>)
        \o ForRange(0, K - 1, LAMBDA k : <<variables[i][k][2]>>)>>
    \o ForRange(0, K - 1,
         LAMBDA k : <<<<-variables[i][k][1], -variables[i][k][2]>>>>)
    \o ForRange(0, K - 1, LAMBDA k1 :
         ForRange(k1 + 1, K - 1, LAMBDA k2 :
            <<<<-variables[i][k1][1], -variables[i][k2][1]>>,
              <<-variables[i][k1][2], -variables[i][k2][2]>>>>))

\* precedence_clauses with the forward pass testing k > h: two forward
\* tasks of an edge may share a station
precedence_clauses_strict(e, K, variables) ==
    ForRange(0, K - 1, LAMBDA k :
       ForRange(0, K - 1, LAMBDA h :
          IF k > h
          THEN <<<<-variables[e[1]][k][1], -variables[e[2]][h][1]>>>>
          ELSE <<>>))
    \o ForRange(0, K - 1, LAMBDA k :
       ForRange(0, K - 1, LAMBDA h :
          IF k <= h
          THEN <<<<-variables[e[1]][k][2], -variables[e[2]][h][2]>>>>
          ELSE <<>>))
    \o ForRange(0, K - 1, LAMBDA k :
       ForRange(0, K - 1, LAMBDA h :
          <<<<-variables[e[1]][k][2], -variables[e[2]][h][1]>>>>))

\* precedence_clauses without the clauses that forbid i backward together
\* with j forward
precedence_clauses_no_bf(e, K, variables) ==
    ForRange(0, K - 1, LAMBDA k :
       ForRange(0, K - 1, LAMBDA h :
          IF k >= h
          THEN <<<<-variables[e[1]][k][1], -variables[e[2]][h][1]>>>>
          ELSE <<>>))
    \o ForRange(0, K - 1, LAMBDA k :
       ForRange(0, K - 1, LAMBDA h :
          IF k <= h
          THEN <<<<-variables[e[1]][k][2], -variables[e[2]][h][2]>>>>
          ELSE <<>>))

\* Precedence constraints of the edge e = <<i, j>>
precedence_clauses(e, K, variables) ==
    ForRange(0, K - 1, LAMBDA k :
       ForRange(0, K - 1, LAMBDA h :
          IF k >= h
          THEN <<<<-variables[e[1]][k][1], -variables[e[2]][h][1]>>>>
          ELSE <<>>))
    \o ForRange(0, K - 1, LAMBDA k :
       ForRange(0, K - 1, LAMBDA h :
          IF k <= h
          THEN <<<<-variables[e[1]][k][2], -variables[e[2]][h][2]>>>>
          ELSE <<>>))
    \o ForRange(0, K - 1, LAMBDA k :
       ForRange(0, K - 1, LAMBDA h :
          <<<<-variables[e[1]][k][2], -variables[e[2]][h][1]>>>>))

\* src/ualbp_pb.py: the base clauses without indicators
generate_base_clauses_pb(T, K, prec, variables) ==
    ForRange(0, T - 1, LAMBDA i : assignment_clauses(i, K, variables))
    \o ForEach(prec, LAMBDA e : precedence_clauses(e, K, variables))

\* generate_y_vars with the offset num_tasks * num_stations: the indicator
\* ids run into the backward ids
generate_y_vars_overlap(T, K) ==
    [i \in 0..(T - 1) |-> [k \in 0..(K - 1) |-> T * K + i * K + k + 1]]

generate_y_vars(T, K) ==
    [i \in 0..(T - 1) |-> [k \in 0..(K - 1) |-> T * K * 2 + i * K + k + 1]]

linking_clauses(T, K, variables, y_vars) ==
    ForRange(0, T - 1, LAMBDA i :
       ForRange(0, K - 1, LAMBDA k :
          <<<<-y_vars[i][k], variables[i][k][1], variables[i][k][2]>>,
            <<-variables[i][k][1], y_vars[i][k]>>,
            <<-variables[i][k][2], y_vars[i][k]>>>>))

\* src/ualbp.py: the clauses half of the pair (clauses, y_vars)
generate_base_clauses(T, K, prec, variables) ==
    generate_base_clauses_pb(T, K, prec, variables)
    \o linking_clauses(T, K, variables, generate_y_vars(T, K))

\* ------------------------------------------------------- the SAT oracle
\* Glucose3 is consumed as an oracle: solve() is true exactly when the
\* clauses added have a satisfying assignment, and get_model() is then any
\* one of them, over the variables 1..NumVars.  An assignment is the set of
\* the variable ids it makes true.
Holds(trueVars, lit) ==
    IF lit > 0 THEN lit \in trueVars ELSE (-lit) \notin trueVars

SatClause(trueVars, clause) ==
    \E j \in 1..Len(clause) : Holds(trueVars, clause[j])

ClauseVars(clause) == {Abs(clause[j]) : j \in 1..Len(clause)}

NumVars(clauses) ==
    Max({0} \cup UNION {ClauseVars(clauses[j]) : j \in 1..Len(clauses)})

\* The assignments of the variables in block that satisfy every clause
\* written over block alone.
LocalSat(block, cs) ==
    LET local == {c \in cs : ClauseVars(c) \subseteq block}
    IN  {s \in SUBSET block : \A c \in local : SatClause(s, c)}

RECURSIVE Combine(_, _)
Combine(blocks, cs) ==
    IF blocks = <<>> THEN {{}}
    ELSE LET rest == Combine(Tail(blocks), cs)
         IN  {s \cup r : s \in LocalSat(Head(blocks), cs), r \in rest}

\* All satisfying assignments of clauses.  blocks is a sequence of disjoint
\* sets of variables: the search goes block by block and then filters by
\* every clause, which yields the same set as filtering SUBSET (1..NumVars).
SatModels(clauses, blocks) ==
    LET cs   == Range(clauses)
        free == (1..NumVars(clauses)) \ UNION Range(blocks)
    IN  {m \in {s \cup f : s \in Combine(blocks, cs), f \in SUBSET free} :
            \A c \in cs : SatClause(m, c)}

\* get_model(): one signed integer per variable id
ModelOf(trueVars, n) == [v \in 1..n |-> IF v \in trueVars THEN v ELSE -v]

\* The variables of task i: its forward, backward and indicator ids
TaskBlocks(T, K, variables, y_vars) ==
    [t \in 1..T |->
        UNION {{variables[t - 1][k][1], variables[t - 1][k][2],
                y_vars[t - 1][k]} : k \in 0..(K - 1)}]

\* ------------------------------------------------- lazy refinement loop
station_assigned(m, k, T, y_vars) ==
    ForRange(0, T - 1,
        LAMBDA i : IF m[y_vars[i][k]] > 0 THEN <<i>> ELSE <<>>)

station_total(assigned, durations) ==
    SumSeq([j \in 1..Len(assigned) |-> durations[assigned[j]]])

\* check_cycle_time testing total > cycle_time + 1
check_cycle_time_slack(m, T, K, durations, y_vars, c) ==
    ForRange(0, K - 1, LAMBDA k :
        LET assigned == station_assigned(m, k, T, y_vars)
            total    == station_total(assigned, durations)
        IN  IF total > c + 1 THEN <<<<k, assigned, total>>>> ELSE <<>>)

\* check_cycle_time testing total >= cycle_time
check_cycle_time_ge(m, T, K, durations, y_vars, c) ==
    ForRange(0, K - 1, LAMBDA k :
        LET assigned == station_assigned(m, k, T, y_vars)
            total    == station_total(assigned, durations)
        IN  IF total >= c THEN <<<<k, assigned, total>>>> ELSE <<>>)

\* check_cycle_time that stops at the first violated station
check_cycle_time_first(m, T, K, durations, y_vars, c) ==
    LET all == ForRange(0, K - 1, LAMBDA k :
        LET assigned == station_assigned(m, k, T, y_vars)
            total    == station_total(assigned, durations)
        IN  IF total > c THEN <<<<k, assigned, total>>>> ELSE <<>>)
    IN  IF all = <<>> THEN <<>> ELSE <<Head(all)>>

\* violations: a sequence of <<k, assigned, total>>
check_cycle_time(m, T, K, durations, y_vars, c) ==
    ForRange(0, K - 1, LAMBDA k :
        LET assigned == station_assigned(m, k, T, y_vars)
            total    == station_total(assigned, durations)
        IN  IF total > c THEN <<<<k, assigned, total>>>> ELSE <<>>)

\* cut_clause that forbids only the first assigned task at the station
cut_clause_first(violation, y_vars) ==
    <<-y_vars[violation[2][1]][violation[1]]>>

\* cut_clause made of the indicators themselves, not negated
cut_clause_unsigned(violation, y_vars) ==
    [j \in 1..Len(violation[2]) |-> y_vars[violation[2][j]][violation[1]]]

\* clause = [-y_vars[i][k] for i in assigned_tasks]
cut_clause(violation, y_vars) ==
    [j \in 1..Len(violation[2]) |-> -y_vars[violation[2][j]][violation[1]]]

\* solution[k]: the entries <<i, "F">>, <<i, "B">> appended for station k
build_solution(m, T, K, variables) ==
    [k \in 0..(K - 1) |->
        ForRange(0, T - 1, LAMBDA i :
            IF m[variables[i][k][1]] > 0 THEN <<<<i, "F">>>>
            ELSE IF m[variables[i][k][2]] > 0 THEN <<<<i, "B">>>>
            ELSE <<>>)]

\* ------------------------------------------- pseudo-boolean strategy
\* lits and weights of station s: both literals of every task, each
\* weighted by the task's duration
pb_lits(s, T, variables) ==
    ForRange(0, T - 1,
        LAMBDA i : <<variables[i][s][1], variables[i][s][2]>>)

pb_weights(T, durations) ==
    ForRange(0, T - 1, LAMBDA i : <<durations[i], durations[i]>>)

\* PBEnc.leq is consumed as an oracle: its clauses, over lits and fresh
\* auxiliary variables above top_id, are satisfiable together with an
\* assignment of lits exactly when the weighted sum of the true lits is at
\* most bound.  The auxiliary variables are left out of the model.
pb_leq(trueVars, lits, weights, bound) ==
    SumSeq([j \in 1..Len(lits) |->
               IF lits[j] \in trueVars THEN weights[j] ELSE 0]) <= bound

\* the forward and backward ids of each task
TaskBlocksPB(T, K, variables) ==
    [t \in 1..T |->
        UNION {{variables[t - 1][k][1], variables[t - 1][k][2]} :
                  k \in 0..(K - 1)}]

\* assignment[i] = (s, 'F' | 'B') of the first true literal, or None
decode_solution(m, T, K, variables) ==
    [i \in 0..(T - 1) |->
        LET hit(s) == variables[i][s][1] \in Range(m)
                         \/ variables[i][s][2] \in Range(m)
        IN  IF \E s \in 0..(K - 1) : hit(s)
            THEN LET s == CHOOSE s \in 0..(K - 1) :
                             hit(s) /\ \A r \in 0..(s - 1) : ~hit(r)
                 IN  IF variables[i][s][1] \in Range(m)
                     THEN <<s, "F">> ELSE <<s, "B">>
            ELSE None]

\* --------------------------------------------------------------- actions
Lazy == program \in {"ualbp", "naive"}

\* solve_ualbp runs: inline in src/ualbp.py, in the started and not yet
\* terminated worker process otherwise
Running ==
    IF program = "ualbp" THEN ppc = "solve_ualbp"
    ELSE ppc \in {"join", "is_alive"}

Variables == generate_ualbp_variables(num_tasks, current_num_stations)

YVars == generate_y_vars(num_tasks, current_num_stations)

\* variables[i] and variables[j] exist for every edge (i, j):
\* generate_base_clauses raises IndexError otherwise
EdgesInRange ==
    \A j \in 1..Len(precedences) :
        precedences[j][1] < num_tasks /\ precedences[j][2] < num_tasks

\* solve_ualbp_iterative is entered: variables and base clauses are built
Encode ==
    /\ Running
    /\ pc = "encode"
    /\ EdgesInRange
    /\ base_clauses' =
          IF Lazy
          THEN generate_base_clauses(num_tasks, current_num_stations,
                                     precedences, Variables)
          ELSE generate_base_clauses_pb(num_tasks, current_num_stations,
                                        precedences, Variables)
    /\ extra_clauses' = <<>>
    /\ iteration' = 0
    /\ tried' = Append(tried, current_num_stations)
    /\ pc' = "solve"
    /\ UNCHANGED <<instance, parent, current_num_stations, model, solution>>

\* Solve with an oracle that is given the base clauses alone
Solve_base_only ==
    /\ Running
    /\ Lazy
    /\ pc = "solve"
    /\ iteration' = iteration + 1
    /\ LET models  == SatModels(base_clauses,
                         TaskBlocks(num_tasks, current_num_stations,
                                    Variables, YVars))
       IN  IF models = {}
           THEN /\ pc' = "none"
                /\ UNCHANGED model
           ELSE /\ \E trueVars \in models :
                      model' = ModelOf(trueVars, NumVars(base_clauses))
                /\ pc' = "check"
    /\ UNCHANGED <<instance, parent, current_num_stations, base_clauses,
                   extra_clauses, solution, tried>>

\* src/ualbp.py, src/ualbp_naive.py: one pass of the while loop up to
\* get_model()
Solve ==
    /\ Running
    /\ Lazy
    /\ pc = "solve"
    /\ iteration' = iteration + 1
    /\ LET clauses == base_clauses \o extra_clauses
           models  == SatModels(clauses,
                         TaskBlocks(num_tasks, current_num_stations,
                                    Variables, YVars))
       IN  IF models = {}
           THEN /\ pc' = "none"
                /\ UNCHANGED model
           ELSE /\ \E trueVars \in models :
                      model' = ModelOf(trueVars, NumVars(clauses))
                /\ pc' = "check"
    /\ UNCHANGED <<instance, parent, current_num_stations, base_clauses,
                   extra_clauses, solution, tried>>

Violations ==
    check_cycle_time(model, num_tasks, current_num_stations, tasks, YVars,
                     cycle_time)

\* if not violations: the solution is built and returned
Decode ==
    /\ Running
    /\ pc = "check"
    /\ Violations = <<>>
    /\ solution' = build_solution(model, num_tasks, current_num_stations,
                                  Variables)
    /\ pc' = "returned"
    /\ UNCHANGED <<instance, parent, current_num_stations, base_clauses,
                   extra_clauses, iteration, model, tried>>

\* else: one cut per violation is appended, and the loop goes round
AddCuts ==
    /\ Running
    /\ pc = "check"
    /\ Violations # <<>>
    /\ extra_clauses' = extra_clauses \o
          [j \in 1..Len(Violations) |-> cut_clause(Violations[j], YVars)]
    /\ pc' = "solve"
    /\ UNCHANGED <<instance, parent, current_num_stations, base_clauses,
                   iteration, model, solution, tried>>

\* src/ualbp_pb.py: the single pass of the while loop
SolvePB ==
    /\ Running
    /\ ~Lazy
    /\ pc = "solve"
    /\ iteration' = iteration + 1
    /\ LET clauses == base_clauses \o extra_clauses
           models  ==
              {m \in SatModels(clauses,
                        TaskBlocksPB(num_tasks, current_num_stations,
                                     Variables)) :
                  \A s \in 0..(current_num_stations - 1) :
                     pb_leq(m, pb_lits(s, num_tasks, Variables),
                            pb_weights(num_tasks, tasks), cycle_time)}
       IN  IF models = {}
           THEN /\ pc' = "none"
                /\ UNCHANGED <<model, solution>>
           ELSE /\ \E trueVars \in models :
                      /\ model' = ModelOf(trueVars, NumVars(clauses))
                      /\ solution' = decode_solution(model', num_tasks,
                                        current_num_stations, Variables)
                /\ pc' = "returned"
    /\ UNCHANGED <<instance, parent, current_num_stations, base_clauses,
                   extra_clauses, tried>>

\* solve_ualbp: while solution is None: current_num_stations += 1
Escalate ==
    /\ Running
    /\ pc = "none"
    /\ current_num_stations < MaxStations
    /\ current_num_stations' = current_num_stations + 1
    /\ pc' = "encode"
    /\ UNCHANGED <<instance, parent, base_clauses, extra_clauses, iteration,
                   model, solution, tried>>

\* solver_process: queue.put(result)
Put ==
    /\ Running
    /\ program # "ualbp"
    /\ pc = "returned"
    /\ queue' = Append(queue, <<solution, current_num_stations>>)
    /\ pc' = "put"
    /\ UNCHANGED <<instance, current_num_stations, base_clauses,
                   extra_clauses, iteration, model, solution, tried,
                   ppc, ret, results, report, deadline_alive>>

\* the worker process ends
Exit ==
    /\ Running
    /\ pc = "put"
    /\ pc' = "exited"
    /\ UNCHANGED <<instance, parent, current_num_stations, base_clauses,
                   extra_clauses, iteration, model, solution, tried>>

\* solver_process: generate_base_clauses raises IndexError on an edge that
\* names a task the instance does not have; the exception ends the worker
\* process before queue.put
Raise ==
    /\ Running
    /\ program # "ualbp"
    /\ pc = "encode"
    /\ ~EdgesInRange
    /\ pc' = "exited"
    /\ UNCHANGED <<instance, parent, current_num_stations, base_clauses,
                   extra_clauses, iteration, model, solution, tried>>

\* solve_instance_with_timeout: q = Queue(); p.start()
Start ==
    /\ ppc = "start"
    /\ ppc' = "join"
    /\ UNCHANGED <<instance, solver, queue, ret, results, report,
                   deadline_alive>>

\* p.join(timeout) returns because the worker has ended
JoinExit ==
    /\ ppc = "join"
    /\ pc = "exited"
    /\ ppc' = "is_alive"
    /\ UNCHANGED <<instance, solver, queue, ret, results, report,
                   deadline_alive>>

\* p.join(timeout) returns because the timeout ran out
JoinTimeout ==
    /\ ppc = "join"
    /\ pc # "exited"
    /\ ppc' = "is_alive"
    /\ deadline_alive' = TRUE
    /\ UNCHANGED <<instance, solver, queue, ret, results, report>>

TLE == <<None, "TLE", "TLE">>

\* if p.is_alive(): p.terminate(); p.join(); the worker's memory is gone
Terminate ==
    /\ ppc = "is_alive"
    /\ pc # "exited"
    /\ pc' = "terminated"
    /\ base_clauses' = <<>>
    /\ extra_clauses' = <<>>
    /\ iteration' = 0
    /\ model' = <<>>
    /\ solution' = None
    /\ ret' = TLE
    /\ ppc' = "record"
    /\ UNCHANGED <<instance, current_num_stations, tried, queue, results,
                   report, deadline_alive>>

\* else: the queue is read if it is not empty
ReadQueue ==
    /\ ppc = "is_alive"
    /\ pc = "exited"
    /\ IF queue # <<>>
       THEN /\ ret' = <<Head(queue)[1], Head(queue)[2], "elapsed">>
            /\ queue' = Tail(queue)
       ELSE /\ ret' = TLE
            /\ UNCHANGED queue
    /\ ppc' = "record"
    /\ UNCHANGED <<instance, solver, results, report, deadline_alive>>

\* src/ualbp_pb.py write_solution_to_txt: the header's station count and
\* the tasks of each station
write_solution_pb(decoded, T) ==
    LET placed == {i \in 0..(T - 1) : decoded[i] # None}
        final_stations ==
            IF placed = {} THEN 0
            ELSE Max({decoded[i][1] : i \in placed}) + 1
    IN  <<final_stations,
          [s \in 0..(final_stations - 1) |->
              ForRange(0, T - 1, LAMBDA i :
                  IF i \in placed /\ decoded[i][1] = s
                  THEN <<<<i + 1, decoded[i][2]>>>> ELSE <<>>)]>>

\* process_instances after solve_instance_with_timeout has returned
Record ==
    /\ ppc = "record"
    /\ IF ret[3] = "TLE"
       THEN /\ results' = Append(results,
                 [lb |-> lb, final_num_stations |-> "TLE", time |-> "TLE"])
            /\ UNCHANGED report
       ELSE /\ results' = Append(results,
                 [lb |-> lb, final_num_stations |-> ret[2],
                  time |-> ret[3]])
            /\ report' = Append(report,
                 IF program = "naive" THEN <<ret[2], ret[1]>>
                 ELSE IF ret[1] # None
                      THEN write_solution_pb(ret[1], num_tasks)
                      ELSE "No solution found")
    /\ ppc' = "done"
    /\ UNCHANGED <<instance, solver, queue, ret, deadline_alive>>

\* src/ualbp.py process_instances after solve_ualbp has returned
RecordDirect ==
    /\ ppc = "solve_ualbp"
    /\ pc = "returned"
    /\ results' = Append(results,
          [lb |-> lb, final_num_stations |-> current_num_stations])
    /\ report' = Append(report, <<current_num_stations, solution>>)
    /\ ppc' = "done"
    /\ UNCHANGED <<instance, solver, queue, ret, deadline_alive>>

\* ------------------------------------------------------------ instances
Edges(T) == {e \in (0..(T - 1)) \X (0..(T - 1)) : e[1] # e[2]}

EdgeLists(T) == UNION {[1..n -> Edges(T)] : n \in 0..MaxEdges}

Init ==
    /\ program \in {"ualbp", "naive", "pb"}
    /\ row_index = 1
    /\ num_tasks \in 1..MaxTasks
    /\ tasks \in [0..(num_tasks - 1) -> 1..MaxDuration]
    /\ precedences \in EdgeLists(num_tasks)
    /\ cycle_time \in 1..MaxCycle
    /\ lb \in 1..MaxLb
    /\ current_num_stations = lb
    /\ pc = "encode"
    /\ base_clauses = <<>>
    /\ extra_clauses = <<>>
    /\ iteration = 0
    /\ model = <<>>
    /\ solution = None
    /\ tried = <<>>
    /\ ppc = IF program = "ualbp" THEN "solve_ualbp" ELSE "start"
    /\ queue = <<>>
    /\ ret = None
    /\ results = <<>>
    /\ report = <<>>
    /\ deadline_alive = FALSE

SolverNext ==
    Encode \/ Solve \/ Decode \/ AddCuts \/ SolvePB \/ Escalate \/ Put
        \/ Exit

Next ==
    \/ SolverNext
    \/ Start \/ JoinExit \/ JoinTimeout \/ Terminate \/ ReadQueue
    \/ Record \/ RecordDirect

Spec == Init /\ [][Next]_vars

\* ---------------------------------------------------------------- batch
\* process_instances: the for loop reads the next row and one of its
\* checks fails (lb does not parse, the name has no cycle time, the
\* instance file cannot be read): continue
SkipRow ==
    /\ ppc = "done"
    /\ row_index < MaxRows
    /\ row_index' = row_index + 1
    /\ UNCHANGED <<program, num_tasks, tasks, precedences, cycle_time, lb,
                   solver, parent>>

\* process_instances: the for loop reads the next row, the row parses, and
\* the solver is called on its instance (in a new worker process with a
\* new queue, or inline in src/ualbp.py)
NextRow ==
    /\ ppc = "done"
    /\ row_index < MaxRows
    /\ row_index' = row_index + 1
    /\ num_tasks' \in 1..BatchTasks
    /\ tasks' \in [0..(num_tasks' - 1) -> 1..MaxDuration]
    /\ precedences' = <<>>
    /\ cycle_time' \in 1..MaxCycle
    /\ lb' \in 1..MaxLb
    /\ current_num_stations' = lb'
    /\ pc' = "encode"
    /\ base_clauses' = <<>>
    /\ extra_clauses' = <<>>
    /\ iteration' = 0
    /\ model' = <<>>
    /\ solution' = None
    /\ tried' = <<>>
    /\ ppc' = IF program = "ualbp" THEN "solve_ualbp" ELSE "start"
    /\ queue' = <<>>
    /\ ret' = None
    /\ deadline_alive' = FALSE
    /\ UNCHANGED <<program, results, report>>

BatchInit ==
    /\ Init
    /\ num_tasks <= BatchTasks
    /\ precedences = <<>>

BatchNext == Next \/ SkipRow \/ NextRow

BatchSpec == BatchInit /\ [][BatchNext]_vars

\* --------------------------------------------------------------- worker
\* src/ualbp_naive.py and src/ualbp_pb.py on one row: read_ualbp_file
\* takes the precedence lines as they are, so an edge may name a task past
\* the last one
WorkerInit ==
    /\ program \in {"naive", "pb"}
    /\ row_index = 1
    /\ num_tasks \in 1..MaxTasks
    /\ tasks \in [0..(num_tasks - 1) -> 1..MaxDuration]
    /\ precedences \in EdgeLists(num_tasks) \cup {<<<<0, num_tasks>>>>}
    /\ cycle_time \in 1..MaxCycle
    /\ lb \in 1..MaxLb
    /\ current_num_stations = lb
    /\ pc = "encode"
    /\ base_clauses = <<>>
    /\ extra_clauses = <<>>
    /\ iteration = 0
    /\ model = <<>>
    /\ solution = None
    /\ tried = <<>>
    /\ ppc = "start"
    /\ queue = <<>>
    /\ ret = None
    /\ results = <<>>
    /\ report = <<>>
    /\ deadline_alive = FALSE

WorkerNext ==
    \/ SolverNext \/ Raise
    \/ Start \/ JoinExit \/ JoinTimeout \/ Terminate \/ ReadQueue
    \/ Record

WorkerSpec == WorkerInit /\ [][WorkerNext]_vars

\* ================================================================ claims
\* The (station, mode) literals of task i that m makes true
TrueLits(m, i, K, variables) ==
    {km \in (0..(K - 1)) \X {1, 2} : m[variables[i][km[1]][km[2]]] > 0}

\* The assignment clauses are the first clauses generate_base_clauses emits
AssignmentPart(clauses, T, K) ==
    SubSeq(clauses, 1, T * (1 + K + K * (K - 1)))

Encoded == pc \in {"solve", "check", "none", "returned", "put", "exited"}

Returned == pc \in {"returned", "put", "exited"}

\* C1: every truth assignment that satisfies the assignment clauses emitted
\* by generate_base_clauses makes exactly one (station, mode) literal of
\* each task true.
C1_AssignmentExactlyOne ==
    Encoded =>
        LET cl == AssignmentPart(base_clauses, num_tasks,
                                 current_num_stations)
        IN  \A trueVars \in SatModels(cl,
                   TaskBlocksPB(num_tasks, current_num_stations, Variables)) :
               \A i \in 0..(num_tasks - 1) :
                  Cardinality(TrueLits(ModelOf(trueVars, NumVars(cl)), i,
                                 current_num_stations, Variables)) = 1

\* The <<station, mode>> pairs task i is listed with in the lazy solution
Listed(sol, i, K) ==
    {km \in (0..(K - 1)) \X {"F", "B"} :
        \E j \in 1..Len(sol[km[1]]) : sol[km[1]][j] = <<i, km[2]>>}

\* How many entries of the lazy solution name task i
Occurrences(sol, i, K) ==
    SumSeq(ForRange(0, K - 1, LAMBDA k :
        ForRange(1, Len(sol[k]), LAMBDA j :
            IF sol[k][j][1] = i THEN <<1>> ELSE <<>>)))

\* C2: whenever the lazy solve_ualbp_iterative returns a solution, every
\* task index appears in exactly one station list, with exactly one mode.
C2_TotalCoverage ==
    (Lazy /\ Returned) =>
        \A i \in 0..(num_tasks - 1) :
            /\ Occurrences(solution, i, current_num_stations) = 1
            /\ Cardinality(Listed(solution, i, current_num_stations)) = 1

\* The tasks the returned solution lists at station k
TasksAt(k) ==
    IF Lazy
    THEN [j \in 1..Len(solution[k]) |-> solution[k][j][1]]
    ELSE ForRange(0, num_tasks - 1, LAMBDA i :
            IF solution[i] # None /\ solution[i][1] = k
            THEN <<i>> ELSE <<>>)

\* C3: for every solution returned by solve_ualbp_iterative, lazy or
\* pseudo-boolean, the durations of the tasks listed at a station sum to at
\* most the cycle time.
C3_Capacity ==
    Returned =>
        \A k \in 0..(current_num_stations - 1) :
            station_total(TasksAt(k), tasks) <= cycle_time

\* a solution returned after a cut was needed, with a station filled to
\* the cycle time
C3_Witness ==
    /\ Lazy
    /\ Returned
    /\ extra_clauses # <<>>
    /\ \E k \in 0..(current_num_stations - 1) :
          station_total(TasksAt(k), tasks) = cycle_time

\* The <<station, mode>> pairs the returned solution gives task i
Placements(i) ==
    IF Lazy THEN Listed(solution, i, current_num_stations)
    ELSE IF solution[i] = None THEN {} ELSE {solution[i]}

\* C4: in every returned solution and for every precedence edge
\* (before, after): both forward puts before at a strictly earlier station,
\* both backward puts before at a strictly later station, and before
\* backward with after forward never happens.
C4_Precedence ==
    Returned =>
        \A e \in Range(precedences) :
            \A b \in Placements(e[1]), a \in Placements(e[2]) :
                /\ (b[2] = "F" /\ a[2] = "F") => b[1] < a[1]
                /\ (b[2] = "B" /\ a[2] = "B") => b[1] > a[1]
                /\ ~(b[2] = "B" /\ a[2] = "F")

\* a returned solution that places both ends of an edge in backward mode
C4_Witness ==
    /\ Returned
    /\ \E e \in Range(precedences) :
          \E b \in Placements(e[1]), a \in Placements(e[2]) :
              b[2] = "B" /\ a[2] = "B"

\* Some assignment satisfies the base clauses at k stations and keeps every
\* station within the cycle time
Feasible(k) ==
    LET variables == generate_ualbp_variables(num_tasks, k)
        y_vars    == generate_y_vars(num_tasks, k)
        clauses   == generate_base_clauses(num_tasks, k, precedences,
                                           variables)
    IN  \E trueVars \in
               SatModels(clauses, TaskBlocks(num_tasks, k, variables, y_vars)) :
           check_cycle_time(ModelOf(trueVars, NumVars(clauses)), num_tasks, k,
                            tasks, y_vars, cycle_time) = <<>>

\* C5: with positive durations, when the lazy solve_ualbp returns
\* (solution, k): k >= lb, the station counts tried are lb, lb + 1, ..., k,
\* no station count from lb to k - 1 is feasible, and k is; a refinement
\* run ends in None only at an infeasible station count.
C5_LinearSearch ==
    Lazy =>
        /\ Encoded =>
              tried = [j \in 1..(current_num_stations - lb + 1) |->
                          lb + j - 1]
        /\ pc = "none" => ~Feasible(current_num_stations)
        /\ Returned =>
              /\ current_num_stations >= lb
              /\ Feasible(current_num_stations)
              /\ \A k \in lb..(current_num_stations - 1) : ~Feasible(k)

\* a return one station above the lower bound, after cuts at both counts
C5_Witness ==
    /\ Lazy
    /\ Returned
    /\ current_num_stations = lb + 1
    /\ extra_clauses # <<>>
    /\ num_tasks = 2

\* The precedence relation has no cycle: the tasks can be ranked along it
Acyclic ==
    \E rank \in [0..(num_tasks - 1) -> 0..(num_tasks - 1)] :
        \A e \in Range(precedences) : rank[e[1]] < rank[e[2]]

Precondition ==
    /\ \A i \in 0..(num_tasks - 1) : tasks[i] <= cycle_time
    /\ Acyclic

MaxOf(a, b) == IF a >= b THEN a ELSE b

RECURSIVE Pow2(_)
Pow2(n) == IF n = 0 THEN 1 ELSE 2 * Pow2(n - 1)

\* One more than the passes a refinement run can make
MaxPasses == MaxStations * Pow2(MaxTasks) + 1

\* The progress of solve_ualbp: the station count first, then the passes of
\* the while loop, then the position within a pass
Progress ==
    current_num_stations * (2 * MaxPasses + 2)
    + (CASE pc = "encode"   -> 0
         [] pc = "solve"    -> 2 * iteration + 1
         [] pc = "check"    -> 2 * iteration
         [] pc = "none"     -> 2 * iteration
         [] pc = "returned" -> 2 * iteration + 1)
    + (IF ppc = "done" THEN 1 ELSE 0)

\* The guards of solve_ualbp's steps: one of them can be taken
CanStep ==
    \/ pc \in {"encode", "solve", "check"}
    \/ pc = "none" /\ current_num_stations < MaxStations

\* C6: if every duration is within the cycle time and the precedences are
\* acyclic, the lazy solve_ualbp started from lb >= 1 returns, with a
\* station count of at most max(lb, numTasks): no refinement run at numTasks
\* stations or more ends in None, a run makes at most
\* numStations * 2^numTasks passes, solve_ualbp can always take a step until
\* it has returned, and every step moves it forward.
C6_Terminates ==
    /\ [](Precondition =>
             /\ pc = "none" => current_num_stations < num_tasks
             /\ Returned => current_num_stations <= MaxOf(lb, num_tasks)
             /\ iteration <= current_num_stations * Pow2(num_tasks)
             /\ ~Returned => CanStep)
    /\ [][Progress' > Progress]_vars

\* the search started below numTasks and returned at numTasks stations
C6_Witness ==
    /\ program = "ualbp"
    /\ Precondition
    /\ Returned
    /\ lb < num_tasks
    /\ current_num_stations = num_tasks

\* C7: when some task's duration exceeds the cycle time, solve_ualbp stops
\* before the search begins: no oracle call is made and the station count
\* is never raised.
C7_FailFast ==
    (\E i \in 0..(num_tasks - 1) : tasks[i] > cycle_time) =>
        (iteration = 0 /\ current_num_stations = lb)

\* C8: in the lazy strategy every literal of every clause handed to the
\* oracle is nonzero with absolute value in 1..3*T*K; the forward and
\* backward ids are pairwise distinct and fill 1..2*T*K, the indicator ids
\* are pairwise distinct and fill 2*T*K+1..3*T*K.
C8_LiteralRange ==
    (Lazy /\ Encoded) =>
        LET T   == num_tasks
            K   == current_num_stations
            all == base_clauses \o extra_clauses
            XW  == (0..(T - 1)) \X (0..(K - 1)) \X {1, 2}
            Y   == (0..(T - 1)) \X (0..(K - 1))
            xid(t) == Variables[t[1]][t[2]][t[3]]
            yid(t) == YVars[t[1]][t[2]]
        IN  /\ \A j \in 1..Len(all) : \A n \in 1..Len(all[j]) :
                  all[j][n] # 0 /\ Abs(all[j][n]) \in 1..(3 * T * K)
            /\ \A a, b \in XW : a # b => xid(a) # xid(b)
            /\ {xid(t) : t \in XW} = 1..(2 * T * K)
            /\ \A a, b \in Y : a # b => yid(a) # yid(b)
            /\ {yid(t) : t \in Y} = (2 * T * K + 1)..(3 * T * K)

\* two tasks, two stations, and a cut among the clauses
C8_Witness ==
    /\ Lazy
    /\ pc = "solve"
    /\ extra_clauses # <<>>
    /\ num_tasks = 2
    /\ current_num_stations = 2

\* C9: a model that makes zero or more than one (station, mode) literal of
\* some task true is never decoded into a returned solution: the decoder
\* reports an error instead.
C9_DecodeConsistency ==
    Returned =>
        \A i \in 0..(num_tasks - 1) :
            Cardinality(TrueLits(model, i, current_num_stations,
                                 Variables)) = 1

\* C10: if the worker is still running when join(timeout) runs out, the
\* worker is terminated, solve_instance_with_timeout returns
\* (None, "TLE", "TLE"), and process_instances records TLE in the summary
\* and writes no solution to the report.
C10_DeadlineTLE ==
    deadline_alive =>
        /\ ppc \in {"record", "done"} => (pc = "terminated" /\ ret = TLE)
        /\ ppc = "done" =>
              /\ Len(results) = 1
              /\ results[1].final_num_stations = "TLE"
              /\ report = <<>>

\* src/ualbp.py alone: solve_ualbp called inline, and a process that is
\* running keeps taking steps
InitDirect == Init /\ program = "ualbp"

NextDirect ==
    Encode \/ Solve \/ Decode \/ AddCuts \/ Escalate \/ RecordDirect

DirectSpec == InitDirect /\ [][NextDirect]_vars

\* ----------------------------------------------- instances of scenario C
\* The chain 0 < 1 < ... of the first n edges
Chain(n) == [j \in 1..n |-> <<j - 1, j>>]

\* src/ualbp.py on four tasks of duration 3 under the chain 0 < 1 < 2 < 3
\* or its first two edges, with cycle time 6
ScenarioInit ==
    /\ program = "ualbp"
    /\ row_index = 1
    /\ num_tasks = 4
    /\ tasks = [i \in 0..3 |-> 3]
    /\ precedences \in {Chain(2), Chain(3)}
    /\ cycle_time = 6
    /\ lb \in 1..MaxLb
    /\ current_num_stations = lb
    /\ pc = "encode"
    /\ base_clauses = <<>>
    /\ extra_clauses = <<>>
    /\ iteration = 0
    /\ model = <<>>
    /\ solution = None
    /\ tried = <<>>
    /\ ppc = "solve_ualbp"
    /\ queue = <<>>
    /\ ret = None
    /\ results = <<>>
    /\ report = <<>>
    /\ deadline_alive = FALSE

ScenarioSpec == ScenarioInit /\ [][NextDirect]_vars

\* Some task is longer than the cycle time: the station that holds it
\* exceeds the cycle time at every station count, so the search of
\* solve_ualbp never finds a feasible one
Oversize == \E i \in 0..(num_tasks - 1) : tasks[i] > cycle_time

\* C11: in batch mode a row whose search never finds a feasible station
\* count does not block the rows after it: while later rows remain and
\* the search on such a row has failed at a station count, process_instances
\* is never inside a call of solve_ualbp that nothing can interrupt.
C11_FailureIsLocal ==
    (Oversize /\ row_index < MaxRows /\ pc = "none") => ppc # "solve_ualbp"

\* C12 (scenario C): on four tasks of duration 3 under the chain
\* 0 < 1 < 2 < 3 with cycle time 6 and lower bound 2, no refinement run ends
\* in None, the station count stays 2, the first model the oracle returns
\* is accepted, and the returned solution lists
\* every task once, two tasks at each station, with every edge of the chain
\* in order: both forward at a strictly earlier station, both backward at a
\* strictly later station, never backward before forward.
C12_ScenarioC ==
    (precedences = Chain(3) /\ lb = 2) =>
        /\ pc # "none"
        /\ current_num_stations = 2
        /\ iteration <= 1
        /\ pc = "returned" =>
              /\ DOMAIN solution = 0..1
              /\ \A k \in 0..1 : Len(solution[k]) = 2
              /\ \A i \in 0..3 : Occurrences(solution, i, 2) = 1
              /\ \A j \in 0..2 :
                    \A b \in Listed(solution, j, 2),
                       a \in Listed(solution, j + 1, 2) :
                        /\ (b[2] = "F" /\ a[2] = "F") => b[1] < a[1]
                        /\ (b[2] = "B" /\ a[2] = "B") => b[1] > a[1]
                        /\ ~(b[2] = "B" /\ a[2] = "F")

\* scenario C has returned: tasks 0 and 3 at the first station, 1 and 2 at
\* the second
C12_Witness ==
    /\ precedences = Chain(3)
    /\ lb = 2
    /\ pc = "returned"
    /\ iteration = 1
    /\ solution = (0 :> <<<<0, "F">>, <<3, "B">>>>
                    @@ 1 :> <<<<1, "F">>, <<2, "B">>>>)

\* s is t or the beginning of t
IsPrefix(s, t) == Len(s) <= Len(t) /\ SubSeq(t, 1, Len(s)) = s

\* The model m, as get_model() returns it, satisfies clause
ModelSat(m, clause) ==
    \E j \in 1..Len(clause) :
        \/ clause[j] > 0 /\ m[clause[j]] > 0
        \/ clause[j] < 0 /\ m[-clause[j]] < 0

\* C13: within one station count the lazy refinement loop goes
\* Init -> Solve -> {Fail | Check} and Check -> {AddCuts -> Solve | Done};
\* the base clauses never change, the cuts only grow, every Solve is given
\* exactly the base clauses and all the cuts so far (its model satisfies
\* each of them, and it fails only when they have no model), and the cuts
\* start empty again when the station count is increased.
C13_RefinementLoop ==
    [][ /\ pc = "encode" =>
              /\ pc' = "solve"
              /\ extra_clauses' = <<>>
              /\ iteration' = 0
        /\ pc = "solve" =>
              /\ pc' \in {"none", "check"}
              /\ base_clauses' = base_clauses
              /\ extra_clauses' = extra_clauses
              /\ iteration' = iteration + 1
              /\ pc' = "check" =>
                    /\ Len(model') = NumVars(base_clauses \o extra_clauses)
                    /\ \A c \in Range(base_clauses \o extra_clauses) :
                          ModelSat(model', c)
              /\ pc' = "none" =>
                    SatModels(base_clauses \o extra_clauses,
                              TaskBlocks(num_tasks, current_num_stations,
                                         Variables, YVars)) = {}
        /\ pc = "check" =>
              /\ pc' \in {"solve", "returned"}
              /\ base_clauses' = base_clauses
              /\ IsPrefix(extra_clauses, extra_clauses')
              /\ pc' = "solve" => Len(extra_clauses') > Len(extra_clauses)
              /\ pc' = "returned" => extra_clauses' = extra_clauses
        /\ pc = "none" =>
              /\ pc' = "encode"
              /\ current_num_stations' = current_num_stations + 1
        /\ current_num_stations' # current_num_stations => pc = "none"
      ]_solver

\* after the station count was increased, a model of the base clauses and
\* a cut of the new count is being checked
C13_Witness ==
    /\ Lazy
    /\ pc = "check"
    /\ current_num_stations > lb
    /\ iteration = 2
    /\ extra_clauses # <<>>

\* The tasks the model in hand places at station k, in either mode
PlacedAt(k) ==
    {i \in 0..(num_tasks - 1) :
        model[Variables[i][k][1]] > 0 \/ model[Variables[i][k][2]] > 0}

\* The tasks whose indicator the model in hand makes true at station k
IndicatedAt(k) == {i \in 0..(num_tasks - 1) : model[YVars[i][k]] > 0}

RECURSIVE DurationOf(_)
DurationOf(S) ==
    IF S = {} THEN 0
    ELSE LET i == CHOOSE x \in S : TRUE
         IN  tasks[i] + DurationOf(S \ {i})

\* The stations whose indicated tasks sum to more than the cycle time
ViolatedStations ==
    {k \in 0..(current_num_stations - 1) :
        DurationOf(IndicatedAt(k)) > cycle_time}

\* C14: an iteration of the lazy loop whose model violates capacity adds as
\* many cuts as there are stations whose indicated tasks sum to more than
\* the cycle time, one for each such station and none for any other, and
\* the cut of station k is the clause of the negated indicators y[i][k] of
\* exactly the tasks i the model places at k; an iteration whose model
\* violates nothing adds no cut.
C14_ExactCuts ==
    [][ (Lazy /\ pc = "check" /\ pc' \in {"solve", "returned"}) =>
          LET added == SubSeq(extra_clauses', Len(extra_clauses) + 1,
                              Len(extra_clauses'))
              CutOf(k) == {-YVars[i][k] : i \in PlacedAt(k)}
          IN  /\ Len(added) = Cardinality(ViolatedStations)
              /\ (pc' = "solve") = (ViolatedStations # {})
              /\ \A k \in ViolatedStations :
                    \E j \in 1..Len(added) :
                        /\ Range(added[j]) = CutOf(k)
                        /\ Len(added[j]) = Cardinality(PlacedAt(k))
              /\ \A j \in 1..Len(added) :
                    \E k \in ViolatedStations : Range(added[j]) = CutOf(k)
      ]_solver

\* the first iteration has added a cut for each of two stations
C14_Witness ==
    /\ Lazy
    /\ pc = "solve"
    /\ iteration = 1
    /\ Len(extra_clauses) = 2

\* How far one run of the refinement loop has come: the distinct cuts
\* accumulated, then the position in the pass
LoopRank ==
    IF pc \in {"solve", "check"}
    THEN 2 * Cardinality(Range(extra_clauses))
            + (IF pc = "check" THEN 1 ELSE 0)
    ELSE 2 * current_num_stations * Pow2(num_tasks) + 2

\* C15: at every station count the lazy refinement loop ends (Done or
\* Fail) whatever models the oracle returns: every cut added is falsified
\* by the model that triggered it and is none of the cuts accumulated
\* before, so every pass moves the loop forward, the cuts never exceed
\* numStations * 2^numTasks, and neither do the iterations.
C15_LoopTerminates ==
    /\ [](Lazy /\ pc \in {"solve", "check", "none", "returned"} =>
            /\ iteration <= current_num_stations * Pow2(num_tasks)
            /\ Len(extra_clauses) = Cardinality(Range(extra_clauses))
            /\ Len(extra_clauses)
                  <= current_num_stations * (Pow2(num_tasks) - 1)
            /\ LoopRank <= 2 * current_num_stations * Pow2(num_tasks) + 2)
    /\ [][ (Lazy /\ pc \in {"solve", "check"}) =>
              /\ LoopRank' > LoopRank
              /\ \A j \in (Len(extra_clauses) + 1)..Len(extra_clauses') :
                    /\ ~ModelSat(model, extra_clauses'[j])
                    /\ extra_clauses'[j] \notin Range(extra_clauses)
       ]_solver

\* a refinement run has ended in None after three passes and two cuts
C15_Witness ==
    /\ Lazy
    /\ pc = "none"
    /\ iteration = 3
    /\ Len(extra_clauses) >= 2

\* C16: solve_instance_with_timeout returns (None, "TLE", "TLE") only if
\* the worker was still running when the deadline expired, and whenever the
\* worker has stopped before the deadline it returns the solution and the
\* station count of solve_ualbp, for every interleaving of the worker's
\* put and exit with the parent's join and queue test.
C16_TLEOnlyAtDeadline ==
    (program # "ualbp" /\ ppc \in {"record", "done"}) =>
        /\ ret = TLE => deadline_alive
        /\ ~deadline_alive =>
              /\ ret[1] = solution
              /\ ret[2] = current_num_stations
              /\ ret[3] = "elapsed"

====
